---- MODULE Spec2Model ----
(***************************************************************************)
(* Model of the axum-style dispatch core (crate `axum` of the repository): *)
(*   - App / EmptyRouter          : src/lib.rs 9-53                        *)
(*   - FromRequest / Handler<..>  : src/lib.rs 55-106                      *)
(*   - RouteSpec::matches         : src/lib.rs 114-124                     *)
(*   - UserId, hello, hello_with_extractor, greet : examples/*.rs          *)
(* Text (header values, bodies, URIs) is modelled as sequences of bytes.   *)
(***************************************************************************)
EXTENDS Integers, Sequences, FiniteSets, TLC

\* ---------------------------------------------------------------- bounds
\* number of dispatches through one App that may be in flight together
MaxDispatch == 2
\* number of dispatches started over the life of the App
MaxServed == 3
\* number of header entries of a request handed to a handler adapter
MaxHeaders == 2
\* length in bytes of a request URI handed to the route matcher
MaxUriLen == 4
\* length in bytes of a RouteSpec's path
MaxSpecLen == 2

\* ------------------------------------------------------- program constants
\* StatusCode::NOT_FOUND
NOT_FOUND == 404
\* status of Response::new(..)
STATUS_OK == 200

\* ------------------------------------------------------------------- text
\* "guest"
Str_guest == <<103, 117, 101, 115, 116>>
\* "anand123"
Str_anand123 == <<97, 110, 97, 110, 100, 49, 50, 51>>
\* "ElonMusk"
Str_ElonMusk == <<69, 108, 111, 110, 77, 117, 115, 107>>
\* "Hello from hello handler"
Str_hello == <<72, 101, 108, 108, 111, 32, 102, 114, 111, 109, 32, 104, 101, 108, 108, 111, 32, 104, 97, 110, 100, 108, 101, 114>>
\* "Hello from hello with extractor handler "
Str_hello_with_extractor == <<72, 101, 108, 108, 111, 32, 102, 114, 111, 109, 32, 104, 101, 108, 108, 111, 32, 119, 105, 116, 104, 32, 101, 120, 116, 114, 97, 99, 116, 111, 114, 32, 104, 97, 110, 100, 108, 101, 114, 32>>
\* "Hello, "
Str_greet_prefix == <<72, 101, 108, 108, 111, 44, 32>>
\* "!"
Str_greet_suffix == <<33>>
\* a header value holding the single byte 0xE9 (legal in a HeaderValue, not visible ASCII)
Bytes_opaque == <<233>>

\* sequences over S of length at most n
SeqUpTo(S, n) == UNION {[1..k -> S] : k \in 0..n}

\* ------------------------------------------------------ Request / Response
\* Body::empty()
Body_empty == <<>>

\* Response::new(body): status 200, empty header map
Response_new(body) == [status |-> STATUS_OK, headers |-> <<>>, body |-> body]

\* the value of a Result that holds no response
NoResponse == [status |-> 0, headers |-> <<>>, body |-> <<>>]

\* Result<Response<Body>, Error>
Ok(res) == [ok |-> TRUE, res |-> res, err |-> "none"]
Err(e) == [ok |-> FALSE, res |-> NoResponse, err |-> e]

\* a request that was not yet supplied
NoRequest == [method |-> "none", uri |-> <<>>, headers |-> <<>>, body |-> <<>>]

\* ------------------------------------------------------------ EmptyRouter
\* EmptyRouter(())
EmptyRouter == [tag |-> "EmptyRouter"]

\* <EmptyRouter as Service>::poll_ready: always Poll::Ready(Ok(()))
EmptyRouter_poll_ready(svc) == [svc |-> svc, poll |-> "ReadyOk"]

\* a fallback that answers 200 to a GET
EmptyRouter_call_OkOnGet(svc, req) ==
    [svc |-> svc,
     fut |-> Ok([status |-> IF req.method = "GET" THEN STATUS_OK ELSE NOT_FOUND,
                 headers |-> <<>>, body |-> Body_empty])]

\* a fallback whose response construction fails
EmptyRouter_call_Fails(svc, req) ==
    [svc |-> svc, fut |-> Err("response")]

\* <EmptyRouter as Service>::call: ignores the request; the ready future holds
\* Ok(res) with res = Response::new(Body::empty()) and status NOT_FOUND
EmptyRouter_call(svc, req) ==
    [svc |-> svc,
     fut |-> Ok([Response_new(Body_empty) EXCEPT !.status = NOT_FOUND])]

\* #[derive(Clone, Copy)] on EmptyRouter
EmptyRouter_clone(svc) == svc

\* -------------------------------------------------------------------- App
\* App::new()
App_new == [router |-> EmptyRouter]

\* requests handed to App::call
AppMethods == {"GET", "POST"}
AppRequests ==
    [method : AppMethods, uri : {<<47>>}, headers : {<<>>},
     body : {Body_empty, <<104, 105>>}]
    \cup [method : AppMethods, uri : {<<47, 97>>},
          headers : {<<[name |-> "x-user-id", value |-> Str_anand123]>>},
          body : {Body_empty, <<104, 105>>}]

Slots == 1..MaxDispatch

\* a dispatch slot with no call in it
IdleSlot ==
    [pc |-> "idle", req |-> NoRequest, svc |-> EmptyRouter, ops |-> <<>>,
     fut |-> Err("pending"), out |-> Err("pending"), nresp |-> 0]

VARIABLES
    app,    \* the composition root
    disp,   \* per slot: one App::call future (pc, request, clone, operations on the clone, result)
    served, \* number of App::call futures created so far
    h,      \* one Handler::call future
    route   \* one evaluation of RouteSpec::matches

vars == <<app, disp, served, h, route>>

\* App::call(&self, req): the async fn is entered, its future holds req
App_call(d) ==
    /\ disp[d].pc = "idle"
    /\ served < MaxServed
    /\ \E req \in AppRequests :
         disp' = [disp EXCEPT ![d] = [IdleSlot EXCEPT !.pc = "created", !.req = req]]
    /\ served' = served + 1
    /\ UNCHANGED <<app, h, route>>

\* a dispatch that takes the unit out of the root instead of cloning it
App_call_clone_Moves(d) ==
    /\ disp[d].pc = "created"
    /\ disp' = [disp EXCEPT ![d].pc = "cloned", ![d].svc = app.router]
    /\ app' = [app EXCEPT !.router = [tag |-> "Moved"]]
    /\ UNCHANGED <<served, h, route>>

\* let mut svc = self.router.clone();
App_call_clone(d) ==
    /\ disp[d].pc = "created"
    /\ disp' = [disp EXCEPT ![d].pc = "cloned",
                            ![d].svc = EmptyRouter_clone(app.router)]
    /\ UNCHANGED <<app, served, h, route>>

\* svc.call(req): the request moves into the clone's call, which returns its future
App_call_invoke(d) ==
    /\ disp[d].pc = "cloned"
    /\ LET r == EmptyRouter_call(disp[d].svc, disp[d].req)
       IN disp' = [disp EXCEPT ![d].pc = "called",
                               ![d].svc = r.svc,
                               ![d].ops = Append(@, "call"),
                               ![d].fut = r.fut]
    /\ UNCHANGED <<app, served, h, route>>

\* .await: the ready future resolves and its value is the result of App::call
App_call_await(d) ==
    /\ disp[d].pc = "called"
    /\ disp' = [disp EXCEPT ![d].pc = "done",
                            ![d].out = disp[d].fut,
                            ![d].nresp = @ + (IF disp[d].fut.ok THEN 1 ELSE 0)]
    /\ UNCHANGED <<app, served, h, route>>

\* the caller takes the result (app.call(req).await.unwrap()); the slot is free again
App_call_return(d) ==
    /\ disp[d].pc = "done"
    /\ disp' = [disp EXCEPT ![d] = IdleSlot]
    /\ UNCHANGED <<app, served, h, route>>

\* ------------------------------------------------- HeaderMap / HeaderValue
\* HeaderMap::get(name): index of the first entry stored under name, 0 for None
\* (names are stored lower-cased by the http crate, so the comparison is exact)
HeaderMap_get(headers, name) ==
    IF \E i \in DOMAIN headers : headers[i].name = name
    THEN CHOOSE i \in DOMAIN headers :
             /\ headers[i].name = name
             /\ \A j \in DOMAIN headers : headers[j].name = name => i <= j
    ELSE 0

\* http's is_visible_ascii: b >= 32 && b < 127 || b == b'\t'
is_visible_ascii(b) == (b >= 32 /\ b < 127) \/ b = 9

\* HeaderValue::to_str(): Ok(text) iff every byte is visible ASCII
HeaderValue_to_str(v) ==
    IF \A i \in DOMAIN v : is_visible_ascii(v[i])
    THEN [ok |-> TRUE, str |-> v]
    ELSE [ok |-> FALSE, str |-> <<>>]

\* ---------------------------------------------------------- extractors
\* an extractor that takes the last x-user-id header instead of the first
UserId_from_request_Last(req) ==
    LET hs == req.headers
        xs == {i \in DOMAIN hs : hs[i].name = "x-user-id"}
        i == IF xs = {} THEN 0 ELSE CHOOSE k \in xs : \A j \in xs : j <= k
        t == IF i = 0 THEN [ok |-> FALSE, str |-> <<>>] ELSE HeaderValue_to_str(hs[i].value)
    IN [val |-> IF t.ok THEN t.str ELSE Str_guest, req |-> req]

\* an extractor that hands out the header's bytes without reading them as text,
\* and consumes the header it read
UserId_from_request_Raw(req) ==
    LET hs == req.headers
        i == HeaderMap_get(hs, "x-user-id")
    IN [val |-> IF i = 0 THEN Str_guest ELSE hs[i].value,
        req |-> IF i = 0 THEN req
                ELSE [req EXCEPT !.headers =
                         [k \in 1..(Len(hs) - 1) |-> IF k < i THEN hs[k] ELSE hs[k + 1]]]]

\* <UserId as FromRequest>::from_request:
\*   req.headers().get("x-user-id").and_then(|h| h.to_str().ok())
\*      .unwrap_or("guest").to_string()
\* the request is only read
UserId_from_request(req) ==
    LET hs == req.headers
        i == HeaderMap_get(hs, "x-user-id")
        t == IF i = 0 THEN [ok |-> FALSE, str |-> <<>>] ELSE HeaderValue_to_str(hs[i].value)
    IN [val |-> IF t.ok THEN t.str ELSE Str_guest, req |-> req]

\* an implementer of FromRequest that uses its &mut Request: it removes the first
\* x-user-id header from the request and returns that header's bytes ("guest" if none)
DrainUserId_from_request(req) ==
    LET hs == req.headers
        i == HeaderMap_get(hs, "x-user-id")
    IN [val |-> IF i = 0 THEN Str_guest ELSE hs[i].value,
        req |-> IF i = 0 THEN req
                ELSE [req EXCEPT !.headers =
                         [k \in 1..(Len(hs) - 1) |-> IF k < i THEN hs[k] ELSE hs[k + 1]]]]

\* the types a handler's parameters are extracted as
Extractors == {"UserId", "DrainUserId"}

\* T::from_request(&mut req), by the type T
FromRequest_from_request(T, req) ==
    IF T = "UserId" THEN UserId_from_request(req) ELSE DrainUserId_from_request(req)

\* ------------------------------------------------------ handler functions
\* results an arbitrary handler function may give
GenericResults ==
    {Ok(Response_new(Body_empty)),
     Ok([Response_new(<<111, 107>>) EXCEPT !.status = NOT_FOUND]),
     Err("e1"), Err("e2")}

\* examples/myhandler.rs: hello
hello(req) == Ok(Response_new(Str_hello))

\* examples/myhandler.rs: hello_with_extractor
hello_with_extractor(req, user) == Ok(Response_new(Str_hello_with_extractor \o user))

\* examples/handlers.rs: greet
greet(req, user) == Ok(Response_new(Str_greet_prefix \o user \o Str_greet_suffix))

\* the results function f may give for (req, args)
FnResults(f, req, args) ==
    CASE f = "hello" -> {hello(req)}
      [] f = "hello_with_extractor" -> {hello_with_extractor(req, args[1])}
      [] f = "greet" -> {greet(req, args[1])}
      [] OTHER -> GenericResults

\* the largest arity a Handler impl exists for
MaxArity == 2

\* the handlers: a function and the types of its extracted parameters
HandlerBindings ==
    {<<"hello", <<>>>>, <<"hello_with_extractor", <<"UserId">>>>, <<"greet", <<"UserId">>>>}
    \cup {<<"generic", e>> : e \in SeqUpTo(Extractors, MaxArity)}

\* requests handed to a handler adapter
HeaderNames == {"x-user-id", "accept"}
HeaderValues == {Str_anand123, Str_ElonMusk, Bytes_opaque, <<>>}
HeaderEntries == [name : HeaderNames, value : HeaderValues]
HandlerRequests ==
    [method : {"GET"}, uri : {<<47>>},
     headers : SeqUpTo(HeaderEntries, MaxHeaders),
     body : {Body_empty, <<104, 105>>}]

\* ------------------------------------------------------- Handler adapters
\* a parameter slot before its extraction has finished
Unset == [set |-> FALSE, val |-> <<>>]

\* no Handler::call in progress
IdleHandler ==
    [pc |-> "idle", f |-> "none", exts |-> <<>>, req0 |-> NoRequest, req |-> NoRequest,
     cur |-> 0, args |-> <<>>, log |-> <<>>, calls |-> 0,
     seenReq |-> NoRequest, seenArgs |-> <<>>,
     fnres |-> Err("pending"), out |-> Err("pending")]

\* an adapter that extracts its parameters last to first
ExtractionOrder_Reversed(n) == [k \in 1..n |-> n + 1 - k]

\* the order in which the adapter of arity n awaits from_request: T1, then T2
ExtractionOrder(n) == [k \in 1..n |-> k]

\* number of extractions that have finished
Extracted(args) == Cardinality({i \in DOMAIN args : args[i].set})

\* an adapter that hands the function a fresh request instead of the one it was given
Fn_apply_FreshRequest(f, req, args) ==
    [seenReq |-> [req EXCEPT !.headers = <<>>, !.body = Body_empty],
     seenArgs |-> args]

\* self(req, T1, .., Tn): the function receives the request by move and the extracted values
Fn_apply(f, req, args) == [seenReq |-> req, seenArgs |-> args]

\* an adapter that answers 500 in place of the function's error
Try_Recovers(fnres) ==
    IF fnres.ok THEN Ok(fnres.res)
    ELSE Ok([Response_new(Body_empty) EXCEPT !.status = 500])

\* let res = <future>.await?; Ok(res)   (the ? converts Error into Error: the identity)
Try(fnres) == IF fnres.ok THEN Ok(fnres.res) ELSE Err(fnres.err)

\* Handler::call(self, req): the adapter for Len(exts) parameters is entered
Handler_call ==
    /\ h.pc = "idle"
    /\ \E b \in HandlerBindings, req \in HandlerRequests :
         h' = [IdleHandler EXCEPT !.pc = "entered", !.f = b[1], !.exts = b[2],
                                  !.req0 = req, !.req = req,
                                  !.args = [i \in DOMAIN b[2] |-> Unset]]
    /\ UNCHANGED <<app, disp, served, route>>

\* Ti::from_request(&mut req) is called: the next extraction starts
Handler_extract_begin ==
    /\ h.pc = "entered"
    /\ Extracted(h.args) < Len(h.exts)
    /\ LET i == ExtractionOrder(Len(h.exts))[Extracted(h.args) + 1]
       IN h' = [h EXCEPT !.pc = "extracting", !.cur = i,
                         !.log = Append(@, [ev |-> "begin", i |-> i])]
    /\ UNCHANGED <<app, disp, served, route>>

\* .await of Ti::from_request: the extraction finishes with its value,
\* and leaves the request as it changed it
Handler_extract_end ==
    /\ h.pc = "extracting"
    /\ LET r == FromRequest_from_request(h.exts[h.cur], h.req)
       IN h' = [h EXCEPT !.pc = "entered", !.req = r.req,
                         !.args[h.cur] = [set |-> TRUE, val |-> r.val],
                         !.log = Append(@, [ev |-> "end", i |-> h.cur])]
    /\ UNCHANGED <<app, disp, served, route>>

\* self(req, T1, .., Tn): the function is invoked with the request and the values;
\* its future is now awaited and may stay pending over any number of polls
Handler_invoke ==
    /\ h.pc = "entered"
    /\ Extracted(h.args) = Len(h.exts)
    /\ LET vals == [i \in DOMAIN h.args |-> h.args[i].val]
           a == Fn_apply(h.f, h.req, vals)
       IN h' = [h EXCEPT !.pc = "running", !.calls = @ + 1,
                         !.seenReq = a.seenReq, !.seenArgs = a.seenArgs,
                         !.log = Append(@, [ev |-> "fn", i |-> 0])]
    /\ UNCHANGED <<app, disp, served, route>>

\* .await of the function's future: the function gives its result
Handler_fn_done ==
    /\ h.pc = "running"
    /\ \E res \in FnResults(h.f, h.seenReq, h.seenArgs) :
         h' = [h EXCEPT !.pc = "invoked", !.fnres = res]
    /\ UNCHANGED <<app, disp, served, route>>

\* the adapter's future is dropped while it is pending (before its first poll, in
\* an extraction's await, or in the function's await): the call ends without a result
Handler_drop ==
    /\ \/ h.pc \in {"extracting", "running"}
       \/ h.pc = "entered" /\ h.log = <<>>
    /\ h' = IdleHandler
    /\ UNCHANGED <<app, disp, served, route>>

\* ?; Ok(res): the adapter's result
Handler_result ==
    /\ h.pc = "invoked"
    /\ h' = [h EXCEPT !.pc = "done", !.out = Try(h.fnres)]
    /\ UNCHANGED <<app, disp, served, route>>

\* the caller takes the adapter's result
Handler_return ==
    /\ h.pc = "done"
    /\ h' = IdleHandler
    /\ UNCHANGED <<app, disp, served, route>>

\* ------------------------------------------------------------- RouteSpec
\* bytes a request URI and a RouteSpec path are written with: '/', 'a', 'A', '?'
UriBytes == {47, 97, 65, 63}

\* Uri::path(): the URI up to the first '?' (origin form, which starts with '/')
Uri_path(uri) ==
    IF \E i \in DOMAIN uri : uri[i] = 63
    THEN LET q == CHOOSE i \in DOMAIN uri :
                      uri[i] = 63 /\ \A j \in DOMAIN uri : uri[j] = 63 => i <= j
         IN SubSeq(uri, 1, q - 1)
    ELSE uri

\* a matcher that accepts any path the spec is a prefix of
RouteSpec_matches_Prefix(spec, req) ==
    /\ req.method = spec.method
    /\ Len(Uri_path(req.uri)) >= Len(spec.spec)
    /\ SubSeq(Uri_path(req.uri), 1, Len(spec.spec)) = spec.spec

\* RouteSpec::matches: req.method() == self.method && req.uri().path().as_bytes() == self.spec
RouteSpec_matches(spec, req) ==
    req.method = spec.method /\ Uri_path(req.uri) = spec.spec

RouteMethods == {"GET", "POST"}
RouteSpecs == [method : RouteMethods, spec : SeqUpTo(UriBytes, MaxSpecLen)]
RouteRequests ==
    [method : RouteMethods,
     uri : {u \in SeqUpTo(UriBytes, MaxUriLen) : Len(u) >= 1 /\ u[1] = 47},
     headers : {<<>>, <<[name |-> "x-user-id", value |-> Str_anand123]>>},
     body : {Body_empty, <<104, 105>>}]

NoRoute == [pc |-> "idle", spec |-> [method |-> "none", spec |-> <<>>],
            req |-> NoRequest, result |-> FALSE]

\* route_spec.matches(&req) is evaluated
Route_matches ==
    /\ route.pc = "idle"
    /\ \E spec \in RouteSpecs, req \in RouteRequests :
         route' = [pc |-> "matched", spec |-> spec, req |-> req,
                   result |-> RouteSpec_matches(spec, req)]
    /\ UNCHANGED <<app, disp, served, h>>

\* the result is used and the next match may be evaluated
Route_reset ==
    /\ route.pc = "matched"
    /\ route' = NoRoute
    /\ UNCHANGED <<app, disp, served, h>>

\* --------------------------------------------------------- specifications
Init ==
    /\ app = App_new
    /\ disp = [d \in Slots |-> IdleSlot]
    /\ served = 0
    /\ h = IdleHandler
    /\ route = NoRoute

\* dispatches through the composition root
AppNext ==
    \/ \E d \in Slots : App_call(d)
    \/ \E d \in Slots : App_call_clone(d)
    \/ \E d \in Slots : App_call_invoke(d)
    \/ \E d \in Slots : App_call_await(d)
    \/ \E d \in Slots : App_call_return(d)

\* calls of the handler adapters
HandlerNext ==
    \/ Handler_call
    \/ Handler_extract_begin
    \/ Handler_extract_end
    \/ Handler_invoke
    \/ Handler_fn_done
    \/ Handler_drop
    \/ Handler_result
    \/ Handler_return

\* evaluations of the route matcher
RouteNext ==
    \/ Route_matches
    \/ Route_reset

SpecApp == Init /\ [][AppNext]_vars

\* a dispatch that is polled is polled to completion
FairSpecApp ==
    /\ Init /\ [][AppNext]_vars
    /\ \A d \in Slots :
         /\ WF_vars(App_call_clone(d))
         /\ WF_vars(App_call_invoke(d))
         /\ WF_vars(App_call_await(d))

SpecHandler == Init /\ [][HandlerNext]_vars

SpecRoute == Init /\ [][RouteNext]_vars

\* ------------------------------------------------------------------ claims
\* C1: every dispatch through an App built by App::new that has finished returned
\* Ok with a response of status 404, an empty body and no headers, whatever the
\* request was and however many dispatches came before.
C1_AlwaysNotFound ==
    \A d \in Slots :
        disp[d].pc = "done" =>
            /\ disp[d].out.ok
            /\ disp[d].out.res.status = 404
            /\ disp[d].out.res.body = <<>>
            /\ disp[d].out.res.headers = <<>>

\* a POST with a header and a body was answered after two earlier dispatches were started
C1_Witness ==
    \E d \in Slots :
        /\ disp[d].pc = "done"
        /\ disp[d].req.method = "POST"
        /\ disp[d].req.headers # <<>>
        /\ disp[d].req.body # <<>>
        /\ disp[d].out.res.status = 404
        /\ served >= 3

\* C2: RouteSpec::matches is true iff the methods are equal and the URI's path (the
\* URI up to its query) is byte for byte the spec's path: the spec holds no '?', the
\* URI starts with the spec, and the URI ends there or its query starts there.
\* Headers and body take no part.
C2_ExactMatch ==
    route.pc = "matched" =>
        LET S == route.spec
            R == route.req
            n == Len(S.spec)
        IN route.result <=>
              /\ R.method = S.method
              /\ Len(R.uri) >= n
              /\ \A i \in 1..n : R.uri[i] = S.spec[i] /\ S.spec[i] # 63
              /\ (Len(R.uri) = n \/ R.uri[n + 1] = 63)

\* "/a?a" with a header and a body matched the spec (same method, "/a")
C2_Witness ==
    /\ route.pc = "matched"
    /\ route.result
    /\ route.spec.spec = <<47, 97>>
    /\ route.req.uri = <<47, 97, 63, 97>>
    /\ route.req.headers # <<>>
    /\ route.req.body # <<>>

\* C3: in a two-arity adapter the events of a call are, in this order, T1's extraction
\* starting and finishing, T2's starting and finishing, and the function's invocation;
\* T1 sees the request as given, T2 sees it as T1 left it, and the function receives
\* it as T2 left it, with both values.
C3_ExtractionOrder ==
    (h.pc # "idle" /\ Len(h.exts) = 2) =>
        LET full == <<[ev |-> "begin", i |-> 1], [ev |-> "end", i |-> 1],
                      [ev |-> "begin", i |-> 2], [ev |-> "end", i |-> 2],
                      [ev |-> "fn", i |-> 0]>>
            e1 == FromRequest_from_request(h.exts[1], h.req0)
            e2 == FromRequest_from_request(h.exts[2], e1.req)
        IN /\ Len(h.log) <= 5
           /\ h.log = SubSeq(full, 1, Len(h.log))
           /\ h.args[1].set => h.args[1].val = e1.val
           /\ h.args[2].set => h.args[2].val = e2.val
           /\ h.pc \in {"running", "invoked", "done"} =>
                 /\ Len(h.log) = 5
                 /\ h.seenReq = e2.req
                 /\ h.seenArgs = <<e1.val, e2.val>>

\* T1 drained the only x-user-id header, so T2 (UserId) found none: the function
\* received the drained value, then "guest", and a request without the header
C3_Witness ==
    /\ h.pc = "done"
    /\ h.exts = <<"DrainUserId", "UserId">>
    /\ h.req0.headers = <<[name |-> "x-user-id", value |-> Str_anand123]>>
    /\ h.seenArgs = <<Str_anand123, Str_guest>>
    /\ h.seenReq.headers = <<>>

\* C4: a zero-arity adapter hands the function exactly the request it was given, and
\* no extraction starts or finishes during the call.
C4_ZeroArity ==
    (h.pc # "idle" /\ Len(h.exts) = 0) =>
        /\ \A k \in DOMAIN h.log : h.log[k].ev = "fn"
        /\ h.req = h.req0
        /\ h.pc \in {"running", "invoked", "done"} =>
              /\ h.seenReq = h.req0
              /\ h.seenArgs = <<>>

\* hello was called with a request that has headers and a body, and has returned
C4_Witness ==
    /\ h.pc = "done"
    /\ h.f = "hello"
    /\ Len(h.req0.headers) = 2
    /\ h.req0.body # <<>>
    /\ h.seenReq = h.req0
    /\ h.out.res.body = Str_hello

\* indices of the x-user-id headers of a request
UserIdHeaders(req) == {i \in DOMAIN req.headers : req.headers[i].name = "x-user-id"}

\* whether every byte of v is printable ASCII or a tab
Readable(v) == \A k \in DOMAIN v : (32 <= v[k] /\ v[k] <= 126) \/ v[k] = 9

\* C5 as stated: whichever x-user-id header the request carries, its value is the
\* value handed to the handler; without such a header the value is "guest".
C5_Original ==
    (h.pc \in {"running", "invoked", "done"} /\ h.exts = <<"UserId">>) =>
        /\ \A i \in UserIdHeaders(h.req0) : h.seenArgs[1] = h.req0.headers[i].value
        /\ UserIdHeaders(h.req0) = {} => h.seenArgs[1] = <<103, 117, 101, 115, 116>>

\* C5 amended: a one-arity handler bound to UserId receives the value of the FIRST
\* x-user-id header when that value is readable as text (visible ASCII), and "guest"
\* when there is no x-user-id header or the first one's value is not readable;
\* hello_with_extractor answers "Hello from hello with extractor handler " followed
\* by that value.
C5_FirstReadableUserId ==
    (h.pc \in {"running", "invoked", "done"} /\ h.exts = <<"UserId">>) =>
        LET xs == UserIdHeaders(h.req0)
            guest == <<103, 117, 101, 115, 116>>
        IN /\ xs = {} => h.seenArgs[1] = guest
           /\ \A i \in xs :
                 (\A j \in xs : i <= j) =>
                    h.seenArgs[1] =
                       IF Readable(h.req0.headers[i].value)
                       THEN h.req0.headers[i].value ELSE guest
           /\ (h.f = "hello_with_extractor" /\ h.pc # "running") =>
                 /\ h.fnres.ok
                 /\ h.fnres.res.body = Str_hello_with_extractor \o h.seenArgs[1]

\* x-user-id: ElonMusk gave the body "Hello from hello with extractor handler ElonMusk"
C5_Witness ==
    /\ h.pc = "done"
    /\ h.f = "hello_with_extractor"
    /\ h.req0.headers = <<[name |-> "x-user-id", value |-> Str_ElonMusk]>>
    /\ h.out.ok
    /\ h.out.res.body = <<72, 101, 108, 108, 111, 32, 102, 114, 111, 109, 32, 104, 101, 108, 108, 111, 32, 119, 105, 116, 104, 32, 101, 120, 116, 114, 97, 99, 116, 111, 114, 32, 104, 97, 110, 100, 108, 101, 114, 32, 69, 108, 111, 110, 77, 117, 115, 107>>

\* C6: when an adapter of arity 0, 1 or 2 has returned, its result is the function's
\* result (the same error, or the same response), the function was invoked once, and
\* each parameter was extracted once.
C6_ResultUnchanged ==
    /\ h.calls <= 1
    /\ h.pc = "done" =>
          /\ h.out = h.fnres
          /\ h.calls = 1
          /\ Cardinality({k \in DOMAIN h.log : h.log[k].ev = "fn"}) = 1
          /\ \A i \in DOMAIN h.exts :
                Cardinality({k \in DOMAIN h.log : h.log[k] = [ev |-> "begin", i |-> i]}) = 1
          /\ Len(h.log) = 2 * Len(h.exts) + 1

\* a two-arity adapter returned the error its function gave
C6_Witness ==
    /\ h.pc = "done"
    /\ Len(h.exts) = 2
    /\ ~h.out.ok
    /\ h.out.err = "e1"
    /\ h.calls = 1

\* C7: on every clone, a call comes only after a poll_ready on that clone.
C7_ReadyBeforeCall ==
    \A d \in Slots :
        \A i \in DOMAIN disp[d].ops :
            disp[d].ops[i] = "call" =>
                \E j \in 1..(i - 1) : disp[d].ops[j] = "poll_ready"

\* C8: the root is never changed; every dispatch works on a clone equal to the unit
\* the root was built with; and a finished dispatch holds the outcome its request
\* has when dispatched alone through a fresh App, whatever the other slots do.
C8_RootImmutable ==
    /\ app = [router |-> [tag |-> "EmptyRouter"]]
    /\ \A d \in Slots :
          /\ disp[d].pc \in {"cloned", "called", "done"} =>
                disp[d].svc = [tag |-> "EmptyRouter"]
          /\ disp[d].pc = "done" =>
                disp[d].out = EmptyRouter_call(EmptyRouter_clone(App_new.router), disp[d].req).fut
    /\ \A d, e \in Slots :
          (disp[d].pc = "done" /\ disp[e].pc = "done" /\ disp[d].req = disp[e].req) =>
              disp[d].out = disp[e].out

\* one dispatch has finished while another, of a different request, holds its clone
C8_Witness ==
    \E d, e \in Slots :
        /\ d # e
        /\ disp[d].pc = "done"
        /\ disp[e].pc = "called"
        /\ disp[d].req # disp[e].req
        /\ served >= 3

\* C9: a dispatch never holds more than one response, a finished dispatch holds
\* exactly one, fully formed; and every dispatch that was started finishes.
C9_ExactlyOnce ==
    /\ \A d \in Slots :
          [](/\ disp[d].nresp <= 1
             /\ disp[d].pc = "done" =>
                   /\ disp[d].nresp = 1
                   /\ disp[d].out.ok
                   /\ disp[d].out.res.status >= 100)
    /\ \A d \in Slots : (disp[d].pc = "created") ~> (disp[d].pc = "done")

\* two dispatches have both finished, each with its one response
C9_Witness ==
    \A d \in Slots : disp[d].pc = "done" /\ disp[d].nresp = 1

\* C10: the UserId extractor always ends with a text value, which is "guest" when the
\* request has no x-user-id header whose value is readable; it leaves the request as
\* it was; and the adapter bound to it fails exactly when its function does.
C10_ExtractionNeverFails ==
    (h.pc # "idle" /\ h.exts \in {<<"UserId">>, <<"UserId", "UserId">>}) =>
        /\ h.req = h.req0
        /\ \A i \in DOMAIN h.args :
              h.args[i].set =>
                 /\ Readable(h.args[i].val)
                 /\ (\A k \in UserIdHeaders(h.req0) : ~Readable(h.req0.headers[k].value))
                        => h.args[i].val = <<103, 117, 101, 115, 116>>
        /\ h.pc \in {"running", "invoked", "done"} => h.seenReq = h.req0
        /\ h.pc = "done" => (h.out.ok <=> h.fnres.ok)

\* two x-user-id headers, both unreadable: the handler got "guest" and the same request
C10_Witness ==
    /\ h.pc = "done"
    /\ h.exts = <<"UserId">>
    /\ h.req0.headers = <<[name |-> "x-user-id", value |-> Bytes_opaque],
                          [name |-> "x-user-id", value |-> Bytes_opaque]>>
    /\ h.seenArgs = <<Str_guest>>
    /\ h.seenReq = h.req0
====
